---- MODULE Spec2Model ----
(***************************************************************************)
(* Alpenglow consensus state machine (formal/stateright/src/lib_improved.rs) *)
(* AlpenglowState and the transition function Model::next_state.           *)
(***************************************************************************)
EXTENDS Integers, Sequences, FiniteSets, TLC

VARIABLES nodes, stake_distribution, status, current_slot, global_time,
          votes, timeouts, certificates, skip_certs, ledger,
          economic_state, network_partition, network_state, message_queue,
          erasure_coded_blocks, relay_assignments, chunk_availability,
          current_window, leader_rotation, finalization_times, panicked

vars == <<nodes, stake_distribution, status, current_slot, global_time,
          votes, timeouts, certificates, skip_certs, ledger,
          economic_state, network_partition, network_state, message_queue,
          erasure_coded_blocks, relay_assignments, chunk_availability,
          current_window, leader_rotation, finalization_times, panicked>>

\* the parts of the state outside the consensus engine
econVars == <<economic_state>>
netVars == <<network_partition, network_state, message_queue>>
rotorVars == <<erasure_coded_blocks, relay_assignments, chunk_availability>>
leaderVars == <<current_window, leader_rotation>>

(***************************************************************************)
(* Program constants                                                       *)
(***************************************************************************)
\* slots 1..=5 are pre-populated by the constructor; current_slot stops at 5
Horizon == 5
\* current_slot advances when global_time % 10 == 0
SlotTicks == 10
FastPercent == 80
SlowPercent == 60
ByzantinePercent == 20
\* TimeoutInfo.threshold set by the constructor
TimeoutThreshold == 3
\* share of the registry that must have timed out for a skip certificate
SkipNodePercent == 60
\* rewards_pool = nodes.len() * 1000
PoolPerNode == 1000
\* LatencyModel::Constant { latency_ms: 50 }
DefaultLatency == 50
\* a TimingAttack delays by min(max_delay, 1000)
MaxAttackDelay == 1000
\* CongestionState::default: congestion_threshold 0.8, in percent
CongestionThreshold == 80
\* WindowInfo set by the constructor
WindowSize == 10
FinalityDepth == 2
\* check_finalization_time_bounds: one second per slot, delta_80 and delta_60
SlotMillis == 1000
\* create_erasure_coded_block: base number of chunks, checksum factor
NumChunks == 10
ChecksumFactor == 12345
\* select_relay_node_for_chunk: seed = chunk_id * 12345
RelaySeed == 12345
\* RelayNode.reliability_score 0.95, in percent
ReliabilityPercent == 95
\* TimingManipulation advances the clock by 10
ManipulationTicks == 10
\* EconomicState.reward_rate 0.05 and the 20% stake bonus, in percent
RewardRatePercent == 5
StakeBonusPercent == 20
\* apply_slashing: slash percentage by severity
MinorPercent == 5
ModeratePercent == 15
SeverePercent == 30
CriticalPercent == 50
\* rotate_leader keeps at most 100 history entries
HistoryLimit == 100
\* the leader fairness property looks at histories of at least 10 entries
FairnessHistory == 10
\* generate_leader_schedule_for_window: hash % 1000
HashModulus == 1000
Delta80 == 500
Delta60 == 1000

(***************************************************************************)
(* Bounds of the exploration                                               *)
(***************************************************************************)
\* total number of votes recorded in the vote lists
MaxVotes == 3
\* the logical clock is explored up to this value
MaxTime == 12
\* number of Timeout actions recorded, over all nodes and slots
MaxTimeouts == 3
\* total stake that deposits may build up
MaxTotalStake == 6
\* number of messages ever sent
MaxMessages == 1
\* number of messages ever sent where the queue is explored on its own
MaxQueue == 2
\* number of erasure coded blocks installed
MaxBlocks == 2
\* length of the leader history
MaxHistory == 10
\* sum of the validator balances that reward distribution may build up
MaxBalance == 300
\* number of slashing evidence entries recorded
MaxEvidence == 2

(***************************************************************************)
(* Inputs: the arguments of AlpenglowState::new and of the actions         *)
(***************************************************************************)
InitNodes == <<1, 2, 3>>
InitStake == [n \in {1, 2, 3} |-> IF n = 3 THEN 3 ELSE 1]
NodeInputs == {1, 2, 3}
SlotInputs == {1, 2}
BlockInputs == {0, 1}
Fast == "Fast"
Slow == "Slow"
VotePath == {Fast, Slow}
DeltaInputs == {5, 10}

(***************************************************************************)
(* Helpers                                                                 *)
(***************************************************************************)
Range(s) == {s[i] : i \in DOMAIN s}

RECURSIVE SumStake(_)
\* sum of the stake stamped on the votes of a sequence (with repetitions)
SumStake(vs) == IF vs = <<>> THEN 0 ELSE Head(vs).stake + SumStake(Tail(vs))

RECURSIVE SumValues(_, _)
\* HashMap::values().sum()
SumValues(f, keys) ==
    IF keys = {} THEN 0
    ELSE LET k == CHOOSE x \in keys : TRUE
         IN f[k] + SumValues(f, keys \ {k})

\* HashMap::insert
Insert(map, key, value) ==
    [k \in DOMAIN map \cup {key} |-> IF k = key THEN value ELSE map[k]]

(***************************************************************************)
(* Values                                                                  *)
(***************************************************************************)
Honest == [kind |-> "Honest"]
Byzantine(strategy) == [kind |-> "Byzantine", strategy |-> strategy]
Crashed(since) == [kind |-> "Crashed", since |-> since]
\* matches!(status, NodeStatus::Honest) without the test
IsHonestAlways(st) == TRUE
IsHonest(st) == st.kind = "Honest"
IsByzantine(st) == st.kind = "Byzantine"

NewVote(node, slot, block, path, stake) ==
    [node |-> node, slot |-> slot, block |-> block, path |-> path, stake |-> stake]

Equivocation == [kind |-> "Equivocation"]
RandomVotes == [kind |-> "RandomVotes"]
WithholdVotes == [kind |-> "WithholdVotes"]
SelectiveEquivocation(min_stake_threshold, target_slots) ==
    [kind |-> "SelectiveEquivocation", min_stake_threshold |-> min_stake_threshold,
     target_slots |-> target_slots]
AdaptiveBehavior(primary_strategy, fallback_strategy, adaptation_threshold) ==
    [kind |-> "AdaptiveBehavior", primary_strategy |-> primary_strategy,
     fallback_strategy |-> fallback_strategy,
     adaptation_threshold |-> adaptation_threshold]
CoalitionAttack(coalition_members, attack_type) ==
    [kind |-> "CoalitionAttack", coalition_members |-> coalition_members,
     attack_type |-> attack_type]
\* target_path is "None" for Option::None
TimingAttack(delay_votes, max_delay, target_path) ==
    [kind |-> "TimingAttack", delay_votes |-> delay_votes, max_delay |-> max_delay,
     target_path |-> target_path]
StakeBasedAttack(reserve_stake_for_critical_slots, activation_threshold) ==
    [kind |-> "StakeBasedAttack",
     reserve_stake_for_critical_slots |-> reserve_stake_for_critical_slots,
     activation_threshold |-> activation_threshold]

SplitVote(target_blocks) == [kind |-> "SplitVote", target_blocks |-> target_blocks]
DelayedFlood(delay_until_slot) ==
    [kind |-> "DelayedFlood", delay_until_slot |-> delay_until_slot]
StrategicTargeting(high_priority_slots) ==
    [kind |-> "StrategicTargeting", high_priority_slots |-> high_priority_slots]
\* manipulation_type is one of "PreventCertification", "ConflictingCertificates",
\* "DelayedCertification"
CertificateManipulation(target_path, manipulation_type) ==
    [kind |-> "CertificateManipulation", target_path |-> target_path,
     manipulation_type |-> manipulation_type]

\* Option::None
None == "None"

\* LatencyModel
ConstantLatency(latency_ms) == [kind |-> "Constant", latency_ms |-> latency_ms]
UniformLatency(min_ms, max_ms) == [kind |-> "Uniform", min_ms |-> min_ms, max_ms |-> max_ms]
NormalLatency(mean_ms, std_dev_ms) ==
    [kind |-> "Normal", mean_ms |-> mean_ms, std_dev_ms |-> std_dev_ms]
RealisticLatency(base_latency_ms, distance_factor, congestion_multiplier) ==
    [kind |-> "Realistic", base_latency_ms |-> base_latency_ms,
     distance_factor |-> distance_factor, congestion_multiplier |-> congestion_multiplier]

\* MessageContent
Heartbeat(sequence) == [kind |-> "Heartbeat", sequence |-> sequence]
VoteMessage(vote) == [kind |-> "Vote", vote |-> vote]
CertificateMessage(cert) == [kind |-> "Certificate", cert |-> cert]
SkipCertificateMessage(skip_cert) == [kind |-> "SkipCertificate", skip_cert |-> skip_cert]

(***************************************************************************)
(* Stake arithmetic                                                        *)
(***************************************************************************)
total_stake(sd) == SumValues(sd, DOMAIN sd)
fast_quorum_stake(sd) == (FastPercent * total_stake(sd)) \div 100
slow_quorum_stake(sd) == (SlowPercent * total_stake(sd)) \div 100
byzantine_threshold_stake(sd) == (ByzantinePercent * total_stake(sd)) \div 100
\* status[&node] is indexed for every key of the stake map
honest_stake(sd, st) == SumValues(sd, {n \in DOMAIN sd : IsHonest(st[n])})
byzantine_stake(sd, st) == SumValues(sd, {n \in DOMAIN sd : IsByzantine(st[n])})

(***************************************************************************)
(* Finalization time bound                                                 *)
(***************************************************************************)
Min(a, b) == IF a <= b THEN a ELSE b

\* finalization_time - slot_start_time is an unsigned subtraction: below the
\* slot start it wraps to a value above the bound, or stops the program
check_finalization_time_bounds(ft, slot) ==
    IF slot \in DOMAIN ft
    THEN /\ ft[slot] >= slot * SlotMillis
         /\ ft[slot] - slot * SlotMillis <= Min(Delta80, 2 * Delta60)
    ELSE TRUE

(***************************************************************************)
(* Vote lists                                                              *)
(***************************************************************************)
RECURSIVE SlotVotes(_, _, _)
\* every vote recorded for a slot, over the vote lists of all nodes
SlotVotes(vs, keys, slot) ==
    IF keys = {} THEN <<>>
    ELSE LET k == CHOOSE x \in keys : TRUE
         IN (IF slot \in DOMAIN vs[k] THEN vs[k][slot] ELSE <<>>)
            \o SlotVotes(vs, keys \ {k}, slot)

RECURSIVE CountVotes(_, _)
CountVotes(vs, keys) ==
    IF keys = {} THEN 0
    ELSE LET k == CHOOSE x \in keys : TRUE
         IN SumValues([s \in DOMAIN vs[k] |-> Len(vs[k][s])], DOMAIN vs[k])
            + CountVotes(vs, keys \ {k})

VoteCount(vs) == CountVotes(vs, DOMAIN vs)

add_vote_to_state(vs, vote) ==
    IF vote.node \in DOMAIN vs /\ vote.slot \in DOMAIN vs[vote.node]
    THEN [vs EXCEPT ![vote.node][vote.slot] = Append(@, vote)]
    ELSE vs

RECURSIVE AddVotes(_, _)
AddVotes(vs, emitted) ==
    IF emitted = <<>> THEN vs
    ELSE AddVotes(add_vote_to_state(vs, Head(emitted)), Tail(emitted))

(***************************************************************************)
(* Byzantine strategies                                                    *)
(***************************************************************************)
\* position of node in a Vec, 0-based; unwrap_or(0) when absent
Position(members, node) ==
    IF node \in Range(members)
    THEN (CHOOSE i \in DOMAIN members :
            members[i] = node /\ \A j \in DOMAIN members : members[j] = node => i <= j) - 1
    ELSE 0

\* node_index % target_blocks.len() divides by zero on an empty list
execute_coalition_attack_aborts(node, coalition_members, attack_type) ==
    /\ node \in Range(coalition_members)
    /\ attack_type.kind = "SplitVote"
    /\ Len(attack_type.target_blocks) = 0

\* the votes a coalition member emits, in emission order
execute_coalition_attack(node, coalition_members, attack_type, slot, stake) ==
    IF node \notin Range(coalition_members) THEN <<>>
    ELSE CASE attack_type.kind = "SplitVote" ->
                LET node_index == Position(coalition_members, node)
                    block == attack_type.target_blocks[
                                 (node_index % Len(attack_type.target_blocks)) + 1]
                IN <<NewVote(node, slot, block, Fast, stake)>>
           [] attack_type.kind = "DelayedFlood" ->
                IF slot >= attack_type.delay_until_slot
                THEN <<NewVote(node, slot, 0, Fast, stake), NewVote(node, slot, 0, Slow, stake),
                       NewVote(node, slot, 1, Fast, stake), NewVote(node, slot, 1, Slow, stake)>>
                ELSE <<>>
           [] attack_type.kind = "StrategicTargeting" ->
                IF slot \in attack_type.high_priority_slots
                THEN <<NewVote(node, slot, 0, Fast, stake), NewVote(node, slot, 1, Fast, stake),
                       NewVote(node, slot, 2, Fast, stake)>>
                ELSE <<NewVote(node, slot, 0, Fast, stake)>>
           [] attack_type.kind = "CertificateManipulation" ->
                CASE attack_type.manipulation_type = "PreventCertification" -> <<>>
                  [] attack_type.manipulation_type = "ConflictingCertificates" ->
                       <<NewVote(node, slot, (node + slot) % 3, attack_type.target_path, stake)>>
                  [] attack_type.manipulation_type = "DelayedCertification" ->
                       IF slot > 2
                       THEN <<NewVote(node, slot - 2, 0, attack_type.target_path, stake)>>
                       ELSE <<>>

\* timeouts.get(&node).and_then(|t| t.get(&slot)).map(|i| i.count).unwrap_or(0)
TimeoutCountOf(tm, node, slot) ==
    IF node \in DOMAIN tm /\ slot \in DOMAIN tm[node] THEN tm[node][slot].count ELSE 0

RECURSIVE StrategyToUse(_, _, _, _)
\* AdaptiveBehavior dispatches to its primary or fallback strategy, recursively
StrategyToUse(tm, strategy, node, slot) ==
    IF strategy.kind = "AdaptiveBehavior"
    THEN IF TimeoutCountOf(tm, node, slot) >= strategy.adaptation_threshold
         THEN StrategyToUse(tm, strategy.fallback_strategy, node, slot)
         ELSE StrategyToUse(tm, strategy.primary_strategy, node, slot)
    ELSE strategy

execute_byzantine_strategy_aborts(tm, node, strategy, slot) ==
    LET s == StrategyToUse(tm, strategy, node, slot)
    IN /\ s.kind = "CoalitionAttack"
       /\ execute_coalition_attack_aborts(node, s.coalition_members, s.attack_type)

\* the votes execute_byzantine_strategy pushes, in emission order
StrategyVotes(tm, node, strategy, slot, stake) ==
    LET s == StrategyToUse(tm, strategy, node, slot)
    IN CASE s.kind = "Equivocation" ->
              <<NewVote(node, slot, 0, Fast, stake), NewVote(node, slot, 1, Fast, stake)>>
         [] s.kind = "RandomVotes" ->
              <<NewVote(node, slot, (node + slot) % 2, Fast, stake)>>
         [] s.kind = "WithholdVotes" -> <<>>
         [] s.kind = "SelectiveEquivocation" ->
              IF stake >= s.min_stake_threshold /\ slot \in s.target_slots
              THEN <<NewVote(node, slot, 0, Fast, stake), NewVote(node, slot, 0, Slow, stake),
                     NewVote(node, slot, 1, Fast, stake), NewVote(node, slot, 1, Slow, stake),
                     NewVote(node, slot, 2, Fast, stake), NewVote(node, slot, 2, Slow, stake)>>
              ELSE <<NewVote(node, slot, 0, Fast, stake)>>
         [] s.kind = "CoalitionAttack" ->
              execute_coalition_attack(node, s.coalition_members, s.attack_type, slot, stake)
         [] s.kind = "TimingAttack" ->
              <<NewVote(node, slot, 0,
                     IF s.target_path = None THEN Slow ELSE s.target_path, stake)>>
         [] s.kind = "StakeBasedAttack" ->
              IF stake >= s.activation_threshold
              THEN IF s.reserve_stake_for_critical_slots /\ slot % 3 = 0
                   THEN <<NewVote(node, slot, 0, Fast, stake), NewVote(node, slot, 1, Fast, stake),
                          NewVote(node, slot, 2, Fast, stake)>>
                   ELSE <<NewVote(node, slot, 1, Fast, stake)>>
              ELSE <<>>

\* the amount execute_byzantine_strategy adds to global_time
StrategyDelay(tm, node, strategy, slot) ==
    LET s == StrategyToUse(tm, strategy, node, slot)
    IN IF s.kind = "TimingAttack" /\ s.delay_votes
       THEN (IF s.max_delay <= MaxAttackDelay THEN s.max_delay ELSE MaxAttackDelay)
       ELSE 0

(***************************************************************************)
(* AlpenglowState::new                                                     *)
(***************************************************************************)
EmptyMap == [k \in {} |-> 0]

\* the constructed state, with the status map given
InitState(st) ==
    /\ nodes = InitNodes
    /\ stake_distribution = InitStake
    /\ status = st
    /\ current_slot = 1
    /\ global_time = 0
    /\ votes = [n \in Range(InitNodes) |-> [s \in 1..Horizon |-> <<>>]]
    /\ timeouts = [n \in Range(InitNodes) |->
                     [s \in 1..Horizon |->
                        [count |-> 0, last_timeout |-> 0, threshold |-> TimeoutThreshold]]]
    /\ certificates = EmptyMap
    /\ skip_certs = EmptyMap
    /\ ledger = <<>>
    /\ economic_state = [rewards_pool |-> Len(InitNodes) * PoolPerNode,
                         total_slashed |-> 0,
                         validator_balances |-> InitStake,
                         slashing_evidence |-> <<>>]
    /\ network_partition = <<>>   \* Option as a sequence: <<>> for None
    /\ network_state = [latency_model |-> ConstantLatency(DefaultLatency),
                        congestion_state |->
                           [current_utilization |-> EmptyMap,
                            congestion_threshold |-> CongestionThreshold],
                        failure_injections |-> <<>>]
    /\ message_queue = [pending_messages |-> <<>>, delivered_messages |-> <<>>,
                        message_counter |-> 0]
    /\ erasure_coded_blocks = EmptyMap
    /\ relay_assignments = EmptyMap
    /\ chunk_availability = EmptyMap
    /\ current_window = [window_start |-> 1, window_size |-> WindowSize,
                         finality_depth |-> FinalityDepth, leader_schedule |-> InitNodes]
    /\ leader_rotation = [current_leader |-> InitNodes[1], current_slot |-> 1,
                          rotation_interval |-> 1,
                          leader_history |-> << <<1, InitNodes[1]>> >>]
    /\ finalization_times = EmptyMap
    /\ panicked = FALSE

Init == InitState([n \in Range(InitNodes) |-> Honest])

(***************************************************************************)
(* Model::next_state, one action per AlpenglowAction variant               *)
(***************************************************************************)
\* stake_distribution.get(&node).unwrap_or(&0)
StakeOf(sd, node) == IF node \in DOMAIN sd THEN sd[node] ELSE 0

AdvanceTime(delta) ==
    /\ ~ panicked
    /\ global_time + delta <= MaxTime
    /\ global_time' = global_time + delta
    /\ current_slot' = IF global_time' % SlotTicks = 0 /\ current_slot < Horizon
                       THEN current_slot + 1 ELSE current_slot
    /\ UNCHANGED <<nodes, stake_distribution, status, votes, timeouts, certificates,
                   skip_certs, ledger, econVars, netVars,
                   rotorVars, leaderVars, finalization_times, panicked>>

TimingManipulation(node, delay_ms, target_slot) ==
    /\ ~ panicked
    /\ global_time + ManipulationTicks <= MaxTime
    /\ global_time' = global_time + ManipulationTicks
    /\ UNCHANGED <<nodes, stake_distribution, status, current_slot, votes, timeouts,
                   certificates, skip_certs, ledger, econVars, netVars,
                   rotorVars, leaderVars, finalization_times, panicked>>

\* a panic of next_state: the run ends, no state is produced
Panic ==
    /\ panicked' = TRUE
    /\ UNCHANGED <<nodes, stake_distribution, status, current_slot, global_time, votes,
                   timeouts, certificates, skip_certs, ledger, econVars, netVars,
                   rotorVars, leaderVars, finalization_times>>

\* VoteAdmitted without the double-vote check
VoteAdmittedAlways(slot_votes, block, path) == TRUE

\* the honest guard of Vote: no recorded vote with the same block and path
VoteAdmitted(slot_votes, block, path) ==
    ~ \E i \in DOMAIN slot_votes : slot_votes[i].block = block /\ slot_votes[i].path = path

\* the vote lists after the Vote branch of next_state ran on lists vs
NextVotes(vs, st, sd, node, slot, block, path) ==
    IF /\ IsHonest(st[node])
       /\ node \in DOMAIN vs
       /\ slot \in DOMAIN vs[node]
       /\ VoteAdmitted(vs[node][slot], block, path)
    THEN [vs EXCEPT ![node][slot] =
            Append(@, NewVote(node, slot, block, path, StakeOf(sd, node)))]
    ELSE vs

Vote(node, slot, block, path) ==
    /\ ~ panicked
    /\ IF node \notin DOMAIN status   \* state.status[&node] panics on a missing key
       THEN Panic
       ELSE /\ votes' = NextVotes(votes, status, stake_distribution, node, slot, block, path)
            /\ VoteCount(votes') <= MaxVotes
            /\ UNCHANGED <<nodes, stake_distribution, status, current_slot, global_time,
                           timeouts, certificates, skip_certs, ledger, econVars, netVars,
                           rotorVars, leaderVars, finalization_times, panicked>>

ByzantineVote(node, strategy, slot) ==
    /\ ~ panicked
    /\ IF \/ node \notin DOMAIN status   \* state.status[&node] panics on a missing key
          \/ /\ IsByzantine(status[node])
             /\ execute_byzantine_strategy_aborts(timeouts, node, strategy, slot)
       THEN Panic
       ELSE /\ IF IsByzantine(status[node])
               THEN /\ votes' = AddVotes(votes,
                                         StrategyVotes(timeouts, node, strategy, slot,
                                                       StakeOf(stake_distribution, node)))
                    /\ global_time' =
                         global_time + StrategyDelay(timeouts, node, strategy, slot)
               ELSE UNCHANGED <<votes, global_time>>
            /\ VoteCount(votes') <= MaxVotes
            /\ global_time' <= MaxTime
            /\ UNCHANGED <<nodes, stake_distribution, status, current_slot, timeouts,
                           certificates, skip_certs, ledger, econVars, netVars,
                           rotorVars, leaderVars, finalization_times, panicked>>

\* the votes Certify scans: every recorded vote of the slot on the path
CertifyVotes(vs, slot, path) ==
    SelectSeq(SlotVotes(vs, DOMAIN vs, slot), LAMBDA v : v.path = path)

\* block_stakes[block]: the stake summed over the scanned votes naming the block
BlockStake(all_votes, block) ==
    SumStake(SelectSeq(all_votes, LAMBDA v : v.block = block))

\* block_votes[block]: the set of scanned votes naming the block
BlockVotes(all_votes, block) == {v \in Range(all_votes) : v.block = block}

RequiredStake(sd, path) ==
    IF path = Fast THEN fast_quorum_stake(sd) ELSE slow_quorum_stake(sd)

\* the blocks block_stakes.iter().find(|stake >= required_stake|) can return
QualifyingBlocks(vs, sd, slot, path) ==
    LET all_votes == CertifyVotes(vs, slot, path)
    IN {b \in {v.block : v \in Range(all_votes)} :
          BlockStake(all_votes, b) >= RequiredStake(sd, path)}

LedgerHasSlot(l, slot) == \E i \in DOMAIN l : l[i].slot = slot

\* a ledger append that does not look for an entry of the slot
LedgerAppendUnguarded(l, slot, block, time, stake) ==
    Append(l, [slot |-> slot, block_id |-> block, finalization_time |-> time,
               total_stake |-> stake])

\* the ledger after Certify installed a certificate for the slot
LedgerAppend(l, slot, block, time, stake) ==
    IF ~ LedgerHasSlot(l, slot)
    THEN Append(l, [slot |-> slot, block_id |-> block, finalization_time |-> time,
                    total_stake |-> stake])
    ELSE l

\* a Certify that records the time of the slot's finalization
CertifyFinalizationTimesRecorded(ft, slot, time) == Insert(ft, slot, time)

\* finalization_times after Certify installed a certificate: the ledger entry
\* carries finalization_time, the map gets no entry
CertifyFinalizationTimes(ft, slot, time) == ft

\* certificates and ledger after Certify took block as the first qualifying one
CertifyOutcome(slot, path, block) ==
    LET all_votes == CertifyVotes(votes, slot, path)
        total == BlockStake(all_votes, block)
    IN <<Insert(certificates, slot,
                [votes |-> BlockVotes(all_votes, block), slot |-> slot,
                 block |-> block, total_stake |-> total, path |-> path]),
         LedgerAppend(ledger, slot, block, global_time, total)>>

\* one outcome for every block that find() can meet first in block_stakes
CertifyOutcomes(slot, path) ==
    {CertifyOutcome(slot, path, block) :
        block \in QualifyingBlocks(votes, stake_distribution, slot, path)}

Certify(slot, path) ==
    LET qualifying == QualifyingBlocks(votes, stake_distribution, slot, path)
    IN /\ ~ panicked
       /\ IF qualifying = {}
          THEN UNCHANGED <<certificates, ledger>>
          ELSE \E outcome \in CertifyOutcomes(slot, path) :   \* HashMap iteration order
                 /\ certificates' = outcome[1]
                 /\ ledger' = outcome[2]
       /\ finalization_times' =
            IF qualifying = {} THEN finalization_times
            ELSE CertifyFinalizationTimes(finalization_times, slot, global_time)
       /\ UNCHANGED <<nodes, stake_distribution, status, current_slot, global_time, votes,
                      timeouts, skip_certs, econVars, netVars,
                   rotorVars, leaderVars, panicked>>

RECURSIVE CountTimeouts(_, _)
CountTimeouts(tm, keys) ==
    IF keys = {} THEN 0
    ELSE LET k == CHOOSE x \in keys : TRUE
         IN SumValues([s \in DOMAIN tm[k] |-> tm[k][s].count], DOMAIN tm[k])
            + CountTimeouts(tm, keys \ {k})

Timeout(node, slot) ==
    /\ ~ panicked
    /\ timeouts' = IF node \in DOMAIN timeouts /\ slot \in DOMAIN timeouts[node]
                   THEN [timeouts EXCEPT ![node][slot] =
                           [@ EXCEPT !.count = @ + 1, !.last_timeout = global_time]]
                   ELSE timeouts
    /\ CountTimeouts(timeouts', DOMAIN timeouts') <= MaxTimeouts
    /\ UNCHANGED <<nodes, stake_distribution, status, current_slot, global_time, votes,
                   certificates, skip_certs, ledger, econVars, netVars,
                   rotorVars, leaderVars, finalization_times, panicked>>

\* number of registry entries whose timeout count reached the threshold
TimedOutCount(ns, tm, slot) ==
    Cardinality({i \in DOMAIN ns :
                   /\ ns[i] \in DOMAIN tm
                   /\ slot \in DOMAIN tm[ns[i]]
                   /\ tm[ns[i]][slot].count >= tm[ns[i]][slot].threshold})

SkipCertAllowed(ns, tm, vs, sd, slot) ==
    /\ TimedOutCount(ns, tm, slot) >= (SkipNodePercent * Len(ns)) \div 100
    /\ SumStake(SlotVotes(vs, DOMAIN vs, slot)) >= slow_quorum_stake(sd)

SkipCert(slot) ==
    /\ ~ panicked
    /\ skip_certs' = IF SkipCertAllowed(nodes, timeouts, votes, stake_distribution, slot)
                     THEN Insert(skip_certs, slot,
                                 [slot |-> slot,
                                  timeout_votes |-> Range(SlotVotes(votes, DOMAIN votes, slot)),
                                  total_stake |-> SumStake(SlotVotes(votes, DOMAIN votes, slot))])
                     ELSE skip_certs
    /\ UNCHANGED <<nodes, stake_distribution, status, current_slot, global_time, votes,
                   timeouts, certificates, ledger, econVars, netVars,
                   rotorVars, leaderVars, finalization_times, panicked>>

AdaptStrategy(node, new_strategy) ==
    /\ ~ panicked
    /\ status' = IF node \in DOMAIN status
                 THEN [status EXCEPT ![node] = Byzantine(new_strategy)]
                 ELSE status
    /\ UNCHANGED <<nodes, stake_distribution, current_slot, global_time, votes, timeouts,
                   certificates, skip_certs, ledger, econVars, netVars,
                   rotorVars, leaderVars, finalization_times, panicked>>

(***************************************************************************)
(* Stake deposit and withdrawal                                            *)
(***************************************************************************)
\* *map.entry(key).or_insert(0) += amount
AddTo(map, key, amount) ==
    Insert(map, key, (IF key \in DOMAIN map THEN map[key] ELSE 0) + amount)

StakeDeposit(node, amount) ==
    /\ ~ panicked
    /\ economic_state' = [economic_state EXCEPT !.validator_balances = AddTo(@, node, amount)]
    /\ stake_distribution' = AddTo(stake_distribution, node, amount)
    /\ nodes' = IF node \in Range(nodes) THEN nodes ELSE Append(nodes, node)
    /\ total_stake(stake_distribution') <= MaxTotalStake
    /\ UNCHANGED <<status, current_slot, global_time, votes, timeouts, certificates,
                   skip_certs, ledger, netVars,
                   rotorVars, leaderVars, finalization_times, panicked>>

\* the withdrawal is applied only when the balance covers it
WithdrawalApplies(balances, node, amount) ==
    node \in DOMAIN balances /\ balances[node] >= amount

StakeWithdrawal(node, amount) ==
    /\ ~ panicked
    /\ IF WithdrawalApplies(economic_state.validator_balances, node, amount)
       THEN /\ economic_state' =
                 [economic_state EXCEPT !.validator_balances[node] = @ - amount]
            /\ stake_distribution' =
                 IF node \in DOMAIN stake_distribution
                 THEN [stake_distribution EXCEPT
                         ![node] = IF @ >= amount THEN @ - amount ELSE 0]
                 ELSE stake_distribution
       ELSE UNCHANGED <<economic_state, stake_distribution>>
    /\ UNCHANGED <<nodes, status, current_slot, global_time, votes, timeouts, certificates,
                   skip_certs, ledger, netVars,
                   rotorVars, leaderVars, finalization_times, panicked>>

(***************************************************************************)
(* Rewards and slashing                                                    *)
(* Amounts computed in f64 by the code are computed here in exact integer  *)
(* arithmetic, rates in percent, truncated as by the cast to u64           *)
(***************************************************************************)
calculate_epoch_rewards(pool, sd, st, epoch, participating_nodes) ==
    LET epoch_rewards == (pool * RewardRatePercent) \div 100
        per_validator_base == IF participating_nodes = <<>> THEN 0
                              ELSE epoch_rewards \div Len(participating_nodes)
        stake_bonus(node) == (per_validator_base * StakeOf(sd, node) * StakeBonusPercent)
                                \div (100 * total_stake(sd))
        honest == SelectSeq(participating_nodes,
                            LAMBDA n : n \in DOMAIN st /\ IsHonest(st[n]))
    IN [epoch |-> epoch,
        total_rewards |-> epoch_rewards,
        validator_rewards |-> [n \in Range(participating_nodes) |-> per_validator_base],
        performance_bonuses |-> [n \in Range(honest) |-> stake_bonus(n)],
        participation_rewards |->
           [n \in Range(participating_nodes) |-> per_validator_base \div 2]]

\* AddRewards that credits nothing
AddRewardsNone(balances, rewards) == balances

\* balances after every entry of a reward map was added to its node
AddRewards(balances, rewards) ==
    [n \in DOMAIN balances \cup DOMAIN rewards |->
        (IF n \in DOMAIN balances THEN balances[n] ELSE 0)
        + (IF n \in DOMAIN rewards THEN rewards[n] ELSE 0)]

distribute_rewards(es, distribution) ==
    IF distribution.total_rewards > es.rewards_pool
    THEN es
    ELSE [es EXCEPT
            !.validator_balances =
               AddRewards(AddRewards(AddRewards(@, distribution.validator_rewards),
                                     distribution.performance_bonuses),
                          distribution.participation_rewards),
            !.rewards_pool = IF @ >= distribution.total_rewards
                             THEN @ - distribution.total_rewards ELSE 0]

Minor == "Minor"
Moderate == "Moderate"
Severe == "Severe"
Critical == "Critical"

\* one percentage for every severity
slash_percentage_flat(severity) == ModeratePercent

slash_percentage(severity) ==
    CASE severity = Minor -> MinorPercent
      [] severity = Moderate -> ModeratePercent
      [] severity = Severe -> SeverePercent
      [] severity = Critical -> CriticalPercent

SlashingEvidence(evidence_type, violator, slot, severity) ==
    [evidence_type |-> evidence_type, violator |-> violator, slot |-> slot,
     evidence_data |-> [kind |-> "NetworkAttack", attack_details |-> ""],
     severity |-> severity, reporter |-> <<>>, timestamp |-> 0]

\* apply_slashing returns Err when the violator has no balance
SlashingApplies(es, evidence) ==
    evidence.violator \in DOMAIN es.validator_balances
    /\ es.validator_balances[evidence.violator] # 0

slash_amount(es, evidence) ==
    (es.validator_balances[evidence.violator] * slash_percentage(evidence.severity)) \div 100

\* the status map after apply_slashing
SlashedStatus(st, es, evidence) ==
    IF SlashingApplies(es, evidence) /\ evidence.severity = Critical
    THEN Insert(st, evidence.violator, Byzantine(Equivocation))
    ELSE st

DistributeRewards(epoch, rewards) ==
    /\ ~ panicked
    /\ economic_state' = distribute_rewards(economic_state, rewards)
    /\ SumValues(economic_state'.validator_balances,
                 DOMAIN economic_state'.validator_balances) <= MaxBalance
    /\ UNCHANGED <<nodes, stake_distribution, status, current_slot, global_time, votes,
                   timeouts, certificates, skip_certs, ledger, netVars, rotorVars,
                   leaderVars, finalization_times, panicked>>

SlashValidator(evidence) ==
    /\ ~ panicked
    /\ IF SlashingApplies(economic_state, evidence)
       THEN /\ economic_state' =
                 [economic_state EXCEPT
                    !.validator_balances[evidence.violator] =
                       @ - slash_amount(economic_state, evidence),
                    !.total_slashed = @ + slash_amount(economic_state, evidence),
                    !.slashing_evidence = Append(@, evidence)]
            /\ status' = SlashedStatus(status, economic_state, evidence)
       ELSE UNCHANGED <<economic_state, status>>
    /\ Len(economic_state'.slashing_evidence) <= MaxEvidence
    /\ UNCHANGED <<nodes, stake_distribution, current_slot, global_time, votes,
                   timeouts, certificates, skip_certs, ledger, netVars, rotorVars,
                   leaderVars, finalization_times, panicked>>

WithdrawRewards(node, amount) ==
    /\ ~ panicked
    /\ economic_state' =
         IF WithdrawalApplies(economic_state.validator_balances, node, amount)
         THEN [economic_state EXCEPT !.validator_balances[node] = @ - amount]
         ELSE economic_state
    /\ UNCHANGED <<nodes, stake_distribution, status, current_slot, global_time, votes,
                   timeouts, certificates, skip_certs, ledger, netVars, rotorVars,
                   leaderVars, finalization_times, panicked>>

(***************************************************************************)
(* Message queue                                                           *)
(***************************************************************************)
\* x as u32: the low 32 bits, taken as two 16-bit halves
Half == 65536
AsU32(x) == (x % Half) + Half * ((x \div Half) % Half)

\* congestion_state.current_utilization.get(&(from, to)).unwrap_or(0.0), in percent
Utilization(ns, from, to) ==
    IF <<from, to>> \in DOMAIN ns.congestion_state.current_utilization
    THEN ns.congestion_state.current_utilization[<<from, to>>] ELSE 0

calculate_latency(ns, time, from, to) ==
    LET m == ns.latency_model
    IN CASE m.kind = "Constant" -> m.latency_ms
         [] m.kind = "Uniform" ->
              IF m.max_ms - m.min_ms = 0 THEN m.min_ms
              ELSE m.min_ms + ((from + to + AsU32(time)) % AsU32(m.max_ms - m.min_ms))
         [] m.kind = "Normal" ->
              LET hash_val == (from * 17 + to * 31 + AsU32(time * 7)) % 1000
                  scaled == m.mean_ms * 1000 + (hash_val - 500) * 4 * m.std_dev_ms
              IN IF scaled < 1000 THEN 1 ELSE scaled \div 1000
         [] m.kind = "Realistic" ->
              LET distance == IF from >= to THEN from - to ELSE to - from
              IN (m.base_latency_ms * 100 + distance * m.distance_factor * 100
                  + Utilization(ns, from, to) * m.congestion_multiplier) \div 100

FailureActive(failure, time) ==
    failure.start_time <= time /\ time < failure.start_time + failure.duration

\* one active failure drops the message
FailureDrops(failure, time, from, to) ==
    LET t == failure.failure_type
    IN CASE t.kind = "LinkFailure" ->
              (t.from = from /\ t.to = to) \/ (t.from = to /\ t.to = from)
         [] t.kind = "NodeIsolation" -> t.node = from \/ t.node = to
         [] t.kind = "PacketLoss" -> (from + to + AsU32(time)) % 100 < t.loss_percent
         [] OTHER -> FALSE

should_drop(ns, time, from, to) ==
    \E i \in DOMAIN ns.failure_injections :
       /\ FailureActive(ns.failure_injections[i], time)
       /\ FailureDrops(ns.failure_injections[i], time, from, to)

RECURSIVE latency_multiplier(_, _)
\* the product of the multipliers of the active latency spikes
latency_multiplier(failures, time) ==
    IF failures = <<>> THEN 1
    ELSE (IF /\ FailureActive(Head(failures), time)
             /\ Head(failures).failure_type.kind = "LatencySpike"
          THEN Head(failures).failure_type.multiplier ELSE 1)
         * latency_multiplier(Tail(failures), time)

total_latency(ns, time, from, to) ==
    LET final_latency == calculate_latency(ns, time, from, to)
                           * latency_multiplier(ns.failure_injections, time)
        congestion_factor == Utilization(ns, from, to)
        congestion_delay == IF congestion_factor > ns.congestion_state.congestion_threshold
                            THEN (final_latency * congestion_factor) \div 100 ELSE 0
    IN final_latency + congestion_delay

\* without a partition every pair communicates; with one, a pair communicates
\* when one subset holds both nodes
can_node_communicate(partition, node1, node2) ==
    IF partition = <<>> THEN TRUE
    ELSE \/ node1 \in partition[1].partition_a /\ node2 \in partition[1].partition_a
         \/ node1 \in partition[1].partition_b /\ node2 \in partition[1].partition_b

\* the partition check of handle_send_message
\* CrossPartition without the partition check
CrossPartitionNever(partition, from, to) == FALSE

\* from_in_a != to_in_a, when a partition is present
CrossPartition(partition, from, to) ==
    /\ partition # <<>>
    /\ (from \in partition[1].partition_a) # (to \in partition[1].partition_a)

\* handle_send_message while fewer than limit messages were ever sent
SendUpTo(limit, from, to, content, priority) ==
    /\ ~ panicked
    /\ IF \/ CrossPartition(network_partition, from, to)
          \/ should_drop(network_state, global_time, from, to)
       THEN UNCHANGED message_queue
       ELSE message_queue' =
              [message_queue EXCEPT
                 !.message_counter = @ + 1,
                 !.pending_messages =
                    Append(@, [id |-> message_queue.message_counter,
                               from |-> from, to |-> to, content |-> content,
                               send_time |-> global_time,
                               scheduled_delivery_time |->
                                  global_time + total_latency(network_state, global_time,
                                                              from, to),
                               priority |-> priority, retry_count |-> 0])]
    /\ message_queue'.message_counter <= limit
    /\ UNCHANGED <<nodes, stake_distribution, status, current_slot, global_time, votes,
                   timeouts, certificates, skip_certs, ledger, econVars,
                   network_partition, network_state,
                   rotorVars, leaderVars, finalization_times, panicked>>

SendMessage(from, to, content, priority) ==
    SendUpTo(MaxMessages, from, to, content, priority)

NetworkPartition(nodes_a, nodes_b) ==
    /\ ~ panicked
    /\ network_partition' = <<[partition_a |-> nodes_a, partition_b |-> nodes_b,
                              started_at |-> global_time]>>
    /\ UNCHANGED <<nodes, stake_distribution, status, current_slot, global_time, votes,
                   timeouts, certificates, skip_certs, ledger, econVars, network_state,
                   message_queue, rotorVars, leaderVars, finalization_times, panicked>>

HealPartition ==
    /\ ~ panicked
    /\ network_partition' = <<>>
    /\ UNCHANGED <<nodes, stake_distribution, status, current_slot, global_time, votes,
                   timeouts, certificates, skip_certs, ledger, econVars, network_state,
                   message_queue, rotorVars, leaderVars, finalization_times, panicked>>

\* pending_messages.iter().position(|msg| msg.id == message_id), 1-based; 0 when absent
PendingPosition(pending, message_id) ==
    IF \E i \in DOMAIN pending : pending[i].id = message_id
    THEN CHOOSE i \in DOMAIN pending :
           /\ pending[i].id = message_id
           /\ \A j \in DOMAIN pending : pending[j].id = message_id => i <= j
    ELSE 0

\* RemoveAt that removes nothing
RemoveNothing(seq, pos) == seq

RemoveAt(seq, pos) == SubSeq(seq, 1, pos - 1) \o SubSeq(seq, pos + 1, Len(seq))

\* a delivered vote is filed in the receiving node's list for the vote's slot
DeliverVote(vs, to, vote) ==
    IF /\ to \in DOMAIN vs
       /\ vote.slot \in DOMAIN vs[to]
       /\ ~ \E i \in DOMAIN vs[to][vote.slot] :
              /\ vs[to][vote.slot][i].node = vote.node
              /\ vs[to][vote.slot][i].block = vote.block
              /\ vs[to][vote.slot][i].path = vote.path
    THEN [vs EXCEPT ![to][vote.slot] = Append(@, vote)]
    ELSE vs

DeliverMessage(message_id) ==
    LET pos == PendingPosition(message_queue.pending_messages, message_id)
    IN IF pos = 0
       THEN ~ panicked /\ UNCHANGED vars
       ELSE LET message == message_queue.pending_messages[pos]
                content == message.content
            IN /\ ~ panicked
               /\ votes' = IF content.kind = "Vote"
                           THEN DeliverVote(votes, message.to, content.vote) ELSE votes
               /\ VoteCount(votes') <= MaxVotes
               /\ certificates' = IF content.kind = "Certificate"
                                  THEN Insert(certificates, content.cert.slot, content.cert)
                                  ELSE certificates
               /\ skip_certs' = IF content.kind = "SkipCertificate"
                                THEN Insert(skip_certs, content.skip_cert.slot,
                                            content.skip_cert)
                                ELSE skip_certs
               /\ message_queue' =
                    [message_queue EXCEPT
                       !.pending_messages = RemoveAt(@, pos),
                       !.delivered_messages =
                          Append(@, [id |-> message.id, from |-> message.from,
                                     to |-> message.to, content |-> content,
                                     send_time |-> message.send_time,
                                     delivery_time |-> global_time,
                                     actual_latency |-> global_time - message.send_time])]
               /\ UNCHANGED <<nodes, stake_distribution, status, current_slot, global_time,
                              timeouts, ledger, econVars, network_partition, network_state,
                   rotorVars, leaderVars, finalization_times, panicked>>

DropMessage(message_id) ==
    /\ ~ panicked
    /\ message_queue' =
         [message_queue EXCEPT
            !.pending_messages = SelectSeq(@, LAMBDA msg : msg.id # message_id)]
    /\ UNCHANGED <<nodes, stake_distribution, status, current_slot, global_time, votes,
                   timeouts, certificates, skip_certs, ledger, econVars,
                   network_partition, network_state,
                   rotorVars, leaderVars, finalization_times, panicked>>

(***************************************************************************)
(* Rotor: erasure coded blocks, relay assignment, chunk availability       *)
(***************************************************************************)
\* the iteration orders of a HashMap with the given key set
Orders(keys) ==
    {f \in [1..Cardinality(keys) -> keys] : \A i, j \in DOMAIN f : f[i] = f[j] => i = j}

RECURSIVE Chunks(_, _, _)
\* the chunks with ids from..(total - 1) of a block, in id order
Chunks(block_id, from, total) ==
    IF from >= total THEN <<>>
    ELSE <<[chunk_id |-> from, block_id |-> block_id,
            checksum |-> from * ChecksumFactor + block_id]>>
         \o Chunks(block_id, from + 1, total)

\* redundancy_level is given in percent
create_erasure_coded_block(block, redundancy_level) ==
    [block |-> block,
     chunks |-> Chunks(block.id, 0, NumChunks + (NumChunks * redundancy_level) \div 100),
     redundancy_level |-> redundancy_level,
     required_chunks |-> NumChunks]

RECURSIVE PrefixStake(_, _, _)
\* current_weight after the first n entries of the stake map in iteration order
PrefixStake(sd, order, n) ==
    IF n = 0 THEN 0 ELSE sd[order[n]] + PrefixStake(sd, order, n - 1)

\* total_stake = 0 makes seed % total_stake a division by zero
\* Option<NodeId> as a sequence: <<node>> for Some(node), <<>> for None
select_relay_node_for_chunk(sd, order, ns, chunk_id, total) ==
    LET target == (chunk_id * RelaySeed) % total
        hits == {i \in DOMAIN order : PrefixStake(sd, order, i) >= target}
    IN IF hits # {}
       THEN <<order[CHOOSE i \in hits : \A j \in hits : i <= j]>>
       ELSE IF ns # <<>> THEN <<ns[1]>> ELSE <<>>

\* the relay list after one more chunk went to node_id
AssignChunk(relay_nodes, sd, node_id, chunk_id) ==
    IF \E i \in DOMAIN relay_nodes : relay_nodes[i].node_id = node_id
    THEN LET pos == CHOOSE i \in DOMAIN relay_nodes :
                       /\ relay_nodes[i].node_id = node_id
                       /\ \A j \in DOMAIN relay_nodes :
                             relay_nodes[j].node_id = node_id => i <= j
         IN [relay_nodes EXCEPT ![pos].assigned_chunks = Append(@, chunk_id)]
    ELSE Append(relay_nodes,
                [node_id |-> node_id,
                 stake_weight |-> IF node_id \in DOMAIN sd THEN sd[node_id] ELSE 0,
                 reliability_score |-> ReliabilityPercent,
                 assigned_chunks |-> <<chunk_id>>])

RECURSIVE SelectRelays(_, _, _, _, _)
SelectRelays(sd, order, ns, chunks, relay_nodes) ==
    IF chunks = <<>> THEN relay_nodes
    ELSE LET selected == select_relay_node_for_chunk(sd, order, ns, Head(chunks).chunk_id,
                                                     total_stake(sd))
         IN SelectRelays(sd, order, ns, Tail(chunks),
                         IF selected = <<>> THEN relay_nodes
                         ELSE AssignChunk(relay_nodes, sd, selected[1],
                                          Head(chunks).chunk_id))

select_relay_nodes(sd, order, ns, erasure_block) ==
    SelectRelays(sd, order, ns, erasure_block.chunks, <<>>)

\* one relay list for every order in which the stake map can be walked
RelayOutcomes(sd, ns, erasure_block) ==
    {select_relay_nodes(sd, order, ns, erasure_block) : order \in Orders(DOMAIN sd)}

select_relay_nodes_aborts(sd, erasure_block) ==
    erasure_block.chunks # <<>> /\ total_stake(sd) = 0

RECURSIVE InsertRelays(_, _)
\* relay_assignments.insert(relay.node_id, relay) for every relay, in order
InsertRelays(ra, relay_nodes) ==
    IF relay_nodes = <<>> THEN ra
    ELSE InsertRelays(Insert(ra, Head(relay_nodes).node_id, Head(relay_nodes)),
                      Tail(relay_nodes))

\* chunk_availability.entry(key).or_insert_with(HashSet::new).insert(node)
MarkAvailable(ca, keys, members) ==
    [k \in DOMAIN ca \cup keys |->
        (IF k \in DOMAIN ca THEN ca[k] ELSE {}) \cup (IF k \in keys THEN members ELSE {})]

propagate_chunks(ca, ra, node_id, erasure_block) ==
    IF node_id \in DOMAIN ra
    THEN MarkAvailable(ca, {<<erasure_block.block.id, c>> : c \in Range(ra[node_id].assigned_chunks)},
                       {node_id})
    ELSE ca

\* the distinct chunk ids of the block that have an availability entry
available_chunks(ca, block_id) == {k[2] : k \in {x \in DOMAIN ca : x[1] = block_id}}

\* can_reconstruct_block that never refuses
can_reconstruct_always(ecb, ca, block_id) == TRUE

can_reconstruct_block(ecb, ca, block_id) ==
    IF block_id \in DOMAIN ecb
    THEN Cardinality(available_chunks(ca, block_id)) >= ecb[block_id].required_chunks
    ELSE FALSE

PropagateErasureBlock(node, erasure_block) ==
    /\ ~ panicked
    /\ Cardinality(DOMAIN erasure_coded_blocks \cup {erasure_block.block.id}) <= MaxBlocks
    /\ IF select_relay_nodes_aborts(stake_distribution, erasure_block)
       THEN Panic
       ELSE \E order \in Orders(DOMAIN stake_distribution) :   \* HashMap iteration order
              /\ erasure_coded_blocks' =
                   Insert(erasure_coded_blocks, erasure_block.block.id, erasure_block)
              /\ relay_assignments' =
                   InsertRelays(relay_assignments,
                                select_relay_nodes(stake_distribution, order, nodes,
                                                   erasure_block))
              /\ chunk_availability' =
                   propagate_chunks(chunk_availability, relay_assignments', node, erasure_block)
              /\ UNCHANGED <<nodes, stake_distribution, status, current_slot, global_time,
                             votes, timeouts, certificates, skip_certs, ledger, econVars,
                             netVars, leaderVars, finalization_times, panicked>>

PropagateChunk(node, chunk, target_nodes) ==
    /\ ~ panicked
    /\ chunk_availability' =
         IF target_nodes = {} THEN chunk_availability
         ELSE MarkAvailable(chunk_availability, {<<chunk.block_id, chunk.chunk_id>>},
                            target_nodes)
    /\ UNCHANGED <<nodes, stake_distribution, status, current_slot, global_time, votes,
                   timeouts, certificates, skip_certs, ledger, econVars, netVars,
                   erasure_coded_blocks, relay_assignments, leaderVars,
                   finalization_times, panicked>>

\* chunk_availability after the ReconstructBlock handler
reconstructed(ecb, ca, node, block_id) ==
    IF can_reconstruct_block(ecb, ca, block_id) /\ block_id \in DOMAIN ecb
    THEN MarkAvailable(ca, {<<block_id, c.chunk_id>> : c \in Range(ecb[block_id].chunks)},
                       {node})
    ELSE ca

ReconstructBlock(node, block_id) ==
    /\ ~ panicked
    /\ chunk_availability' =
         reconstructed(erasure_coded_blocks, chunk_availability, node, block_id)
    /\ UNCHANGED <<nodes, stake_distribution, status, current_slot, global_time, votes,
                   timeouts, certificates, skip_certs, ledger, econVars, netVars,
                   erasure_coded_blocks, relay_assignments, leaderVars,
                   finalization_times, panicked>>

(***************************************************************************)
(* Leader rotation and windows                                             *)
(***************************************************************************)
\* (slot - window_start) as usize % len when slot < window_start and the
\* subtraction wraps around 2^32 = Half * Half
WrappedPosition(difference, len) ==
    ((Half % len) * (Half % len) + (difference % len)) % len

\* slot - window_start underflows below the window start; the remainder by an
\* empty schedule is a division by zero
get_leader_for_slot_underflows(window, slot) == slot < window.window_start
get_leader_for_slot_aborts(window) == Len(window.leader_schedule) = 0

get_leader_for_slot(window, slot) ==
    LET len == Len(window.leader_schedule)
        position == IF slot >= window.window_start
                    THEN (slot - window.window_start) % len
                    ELSE WrappedPosition(slot - window.window_start, len)
    IN window.leader_schedule[position + 1]

\* the history keeps its last 100 entries
rotate_leader(rotation, window, new_slot) ==
    LET new_leader == get_leader_for_slot(window, new_slot)
        pushed == Append(rotation.leader_history, <<new_slot, new_leader>>)
    IN [rotation EXCEPT !.current_leader = new_leader,
                        !.current_slot = new_slot,
                        !.leader_history = IF Len(pushed) > HistoryLimit
                                           THEN Tail(pushed) ELSE pushed]

\* (seed * weight * node) % 1000, for values far below the 64-bit wrap
ScheduleHash(sd, seed, node) ==
    (((seed % HashModulus) * (StakeOf(sd, node) % HashModulus)) % HashModulus
       * (node % HashModulus)) % HashModulus

RECURSIVE InsertByHash(_, _, _, _)
\* stable insertion into a list ordered by decreasing hash
InsertByHash(sorted, sd, seed, node) ==
    IF sorted = <<>> THEN <<node>>
    ELSE IF ScheduleHash(sd, seed, Head(sorted)) >= ScheduleHash(sd, seed, node)
         THEN <<Head(sorted)>> \o InsertByHash(Tail(sorted), sd, seed, node)
         ELSE <<node>> \o sorted

RECURSIVE SortByHash(_, _, _, _)
SortByHash(ns, sd, seed, sorted) ==
    IF ns = <<>> THEN sorted
    ELSE SortByHash(Tail(ns), sd, seed, InsertByHash(sorted, sd, seed, Head(ns)))

generate_leader_schedule_for_window(ns, sd, window_start) ==
    SortByHash(ns, sd, window_start, <<>>)

update_window(window, ns, sd, new_slot, window_size, finality_depth) ==
    IF new_slot >= window.window_start + window.window_size
    THEN [window_start |-> new_slot, window_size |-> window_size,
          finality_depth |-> finality_depth,
          leader_schedule |-> generate_leader_schedule_for_window(ns, sd, new_slot)]
    ELSE window

RotateLeader(new_leader, slot) ==
    /\ ~ panicked
    /\ \/ /\ get_leader_for_slot_aborts(current_window)
          /\ Panic
       \/ /\ ~ get_leader_for_slot_aborts(current_window)
          /\ get_leader_for_slot_underflows(current_window, slot)
          /\ Panic                                   \* overflow checks on
       \/ /\ ~ get_leader_for_slot_aborts(current_window)
          /\ leader_rotation' = rotate_leader(leader_rotation, current_window, slot)
          /\ Len(leader_rotation'.leader_history) <= MaxHistory
          /\ UNCHANGED <<nodes, stake_distribution, status, current_slot, global_time,
                         votes, timeouts, certificates, skip_certs, ledger, econVars,
                         netVars, rotorVars, current_window, finalization_times, panicked>>

\* a proposal by the slot's scheduled leader moves current_slot up to the slot
ProposeBlock(leader, slot) ==
    /\ ~ panicked
    /\ \/ /\ get_leader_for_slot_aborts(current_window)
          /\ Panic
       \/ /\ ~ get_leader_for_slot_aborts(current_window)
          /\ get_leader_for_slot_underflows(current_window, slot)
          /\ Panic                                   \* overflow checks on
       \/ /\ ~ get_leader_for_slot_aborts(current_window)
          /\ current_slot' = IF leader = get_leader_for_slot(current_window, slot)
                             THEN (IF slot >= current_slot THEN slot ELSE current_slot)
                             ELSE current_slot
          /\ UNCHANGED <<nodes, stake_distribution, status, global_time, votes, timeouts,
                         certificates, skip_certs, ledger, econVars, netVars, rotorVars,
                         leaderVars, finalization_times, panicked>>

UpdateWindow(slot, window_size, finality_depth) ==
    /\ ~ panicked
    /\ current_window' = update_window(current_window, nodes, stake_distribution, slot,
                                       window_size, finality_depth)
    /\ UNCHANGED <<nodes, stake_distribution, status, current_slot, global_time, votes,
                   timeouts, certificates, skip_certs, ledger, econVars, netVars,
                   rotorVars, leader_rotation, finalization_times, panicked>>

(***************************************************************************)
(* Specifications                                                          *)
(* Spec: voting and certification.  SpecClock: the clock, timeouts and     *)
(* skip certificates.  SpecStake: deposits and withdrawals.  SpecNet: the  *)
(* message queue.                                                          *)
(***************************************************************************)
StrategyInputs == {Equivocation, RandomVotes, WithholdVotes, TimingAttack(FALSE, 0, None)}
AdaptInputs == {Equivocation}
\* the node that turns Byzantine: it holds 20% of the stake
AdaptNodeInputs == {1}
\* the nodes that cast honest votes
VoterInputs == {2, 3}

Next ==
    \/ \E node \in VoterInputs, slot \in SlotInputs, block \in BlockInputs, path \in VotePath :
         Vote(node, slot, block, path)
    \/ \E node \in NodeInputs, strategy \in StrategyInputs, slot \in SlotInputs :
         ByzantineVote(node, strategy, slot)
    \/ \E slot \in SlotInputs, path \in VotePath : Certify(slot, path)
    \/ \E node \in AdaptNodeInputs, new_strategy \in AdaptInputs :
         AdaptStrategy(node, new_strategy)

Spec == Init /\ [][Next]_vars

ClockSlotInputs == {1}
ClockBlockInputs == {0}
TimeoutNodeInputs == {1, 2}

NextClock ==
    \/ \E delta \in DeltaInputs : AdvanceTime(delta)
    \/ \E node \in VoterInputs, slot \in ClockSlotInputs, block \in ClockBlockInputs,
          path \in VotePath : Vote(node, slot, block, path)
    \/ \E slot \in ClockSlotInputs, path \in VotePath : Certify(slot, path)
    \/ \E node \in TimeoutNodeInputs, slot \in SlotInputs : Timeout(node, slot)
    \/ \E slot \in SlotInputs : SkipCert(slot)

SpecClock == Init /\ [][NextClock]_vars

StakeVoteNodes == {3}
StakeNodeInputs == {1, 3}
AmountInputs == {1}

NextStake ==
    \/ \E node \in StakeVoteNodes, slot \in ClockSlotInputs, block \in ClockBlockInputs,
          path \in VotePath : Vote(node, slot, block, path)
    \/ \E slot \in ClockSlotInputs, path \in VotePath : Certify(slot, path)
    \/ \E node \in StakeNodeInputs, amount \in AmountInputs : StakeDeposit(node, amount)
    \/ \E node \in StakeNodeInputs, amount \in AmountInputs : StakeWithdrawal(node, amount)

SpecStake == Init /\ [][NextStake]_vars

\* a certificate no Certify builds: its votes name two blocks
MixedCertificate ==
    [votes |-> {NewVote(2, 1, 0, Slow, 1), NewVote(2, 1, 1, Slow, 1)},
     slot |-> 1, block |-> 0, total_stake |-> 2, path |-> Slow]
MessageInputs ==
    {Heartbeat(0), VoteMessage(NewVote(1, 1, 1, Fast, 1)), CertificateMessage(MixedCertificate),
     SkipCertificateMessage([slot |-> 1, timeout_votes |-> {}, total_stake |-> 0])}
SenderInputs == {1, 2}
ReceiverInputs == {2, 3}
PriorityInputs == {"Normal", "Critical"}
MessageIdInputs == 0..MaxMessages

NextNet ==
    \/ \E node \in VoterInputs, slot \in ClockSlotInputs, block \in BlockInputs,
          path \in VotePath : Vote(node, slot, block, path)
    \/ \E slot \in ClockSlotInputs, path \in VotePath : Certify(slot, path)
    \/ \E from \in SenderInputs, to \in ReceiverInputs, content \in MessageInputs,
          priority \in PriorityInputs : SendMessage(from, to, content, priority)
    \/ \E message_id \in MessageIdInputs : DeliverMessage(message_id)
    \/ \E message_id \in MessageIdInputs : DropMessage(message_id)

SpecNet == Init /\ [][NextNet]_vars

RotorBlockIds == {1}
RotorNodeInputs == {1, 3}
RedundancyInputs == {0, 50}
ErasureBlockInputs ==
    {create_erasure_coded_block([id |-> b, parent |-> 0], r) :
        b \in RotorBlockIds, r \in RedundancyInputs}
ChunkInputs == {[chunk_id |-> c, block_id |-> 1, checksum |-> c * ChecksumFactor + 1] :
                   c \in {0, 1}}
TargetInputs == {{1, 3}}
RotorDepositNodes == {1}

NextRotor ==
    \/ \E node \in RotorNodeInputs, erasure_block \in ErasureBlockInputs :
         PropagateErasureBlock(node, erasure_block)
    \/ \E node \in RotorNodeInputs, chunk \in ChunkInputs, target_nodes \in TargetInputs :
         PropagateChunk(node, chunk, target_nodes)
    \/ \E node \in RotorNodeInputs, block_id \in RotorBlockIds : ReconstructBlock(node, block_id)
    \/ \E node \in RotorDepositNodes, amount \in AmountInputs : StakeDeposit(node, amount)

SpecRotor == Init /\ [][NextRotor]_vars

\* dissemination and reconstruction under the initial stake
NextReconstruct ==
    \/ \E node \in RotorNodeInputs, erasure_block \in ErasureBlockInputs :
         PropagateErasureBlock(node, erasure_block)
    \/ \E node \in RotorNodeInputs, chunk \in ChunkInputs, target_nodes \in TargetInputs :
         PropagateChunk(node, chunk, target_nodes)
    \/ \E node \in RotorNodeInputs, block_id \in RotorBlockIds : ReconstructBlock(node, block_id)

SpecReconstruct == Init /\ [][NextReconstruct]_vars

RotateSlotInputs == {1, 2}
WindowSlotInputs == {5, 11}
WindowSizeInputs == {10}
FinalityDepthInputs == {2}

NextLeader ==
    \/ \E new_leader \in AdaptNodeInputs, slot \in RotateSlotInputs :
         RotateLeader(new_leader, slot)
    \/ \E slot \in WindowSlotInputs, window_size \in WindowSizeInputs,
          finality_depth \in FinalityDepthInputs :
         UpdateWindow(slot, window_size, finality_depth)

SpecLeader == Init /\ [][NextLeader]_vars

ParticipantInputs == {<<1, 2, 3>>}
\* a distribution that asks for more than any pool of the exploration holds
OversizedDistribution ==
    [epoch |-> 1, total_rewards |-> 2 * Len(InitNodes) * PoolPerNode,
     validator_rewards |-> [n \in {3} |-> 1], performance_bonuses |-> EmptyMap,
     participation_rewards |-> EmptyMap]
EvidenceInputs ==
    {SlashingEvidence("DoubleVoting", violator, 1, severity) :
        violator \in {3}, severity \in {Moderate, Critical}}
WithdrawInputs == {50}
WithdrawNodeInputs == {3}

NextEcon ==
    \/ \E participating \in ParticipantInputs :
         DistributeRewards(1, calculate_epoch_rewards(economic_state.rewards_pool,
                                                      stake_distribution, status, 1,
                                                      participating))
    \/ DistributeRewards(1, OversizedDistribution)
    \/ \E evidence \in EvidenceInputs : SlashValidator(evidence)
    \/ \E node \in WithdrawNodeInputs, amount \in WithdrawInputs : WithdrawRewards(node, amount)
    \/ \E node \in RotorDepositNodes, amount \in AmountInputs : StakeDeposit(node, amount)
    \/ \E node \in RotorDepositNodes, amount \in AmountInputs : StakeWithdrawal(node, amount)

SpecEcon == Init /\ [][NextEcon]_vars

\* every severity against node 3, and Critical against node 1, whose whole
\* stake a withdrawal can take out first
SlashEvidenceInputs ==
    {SlashingEvidence("DoubleVoting", violator, 1, severity) :
        violator \in {3}, severity \in {Minor, Moderate, Severe, Critical}}
       \cup {SlashingEvidence("DoubleVoting", 1, 1, Critical)}

NextSlash ==
    \/ \E participating \in ParticipantInputs :
         DistributeRewards(1, calculate_epoch_rewards(economic_state.rewards_pool,
                                                      stake_distribution, status, 1,
                                                      participating))
    \/ DistributeRewards(1, OversizedDistribution)
    \/ \E evidence \in SlashEvidenceInputs : SlashValidator(evidence)
    \/ \E node \in RotorDepositNodes, amount \in AmountInputs : StakeWithdrawal(node, amount)

SpecSlash == Init /\ [][NextSlash]_vars

\* node 9 is in no registry; slot 7 is beyond the horizon; a SplitVote
\* coalition with no target blocks; message id 7 was never assigned
UnknownNode == 9
TotalNodeInputs == {1, UnknownNode}
TotalSlotInputs == {1, Horizon + 2}
TotalStrategyInputs == {Equivocation, CoalitionAttack(<<1>>, SplitVote(<<>>))}
TotalAmountInputs == {0, 1}
TotalMessageIds == {7}

NextTotal ==
    \/ \E node \in TotalNodeInputs, slot \in TotalSlotInputs, block \in ClockBlockInputs,
          path \in VotePath : Vote(node, slot, block, path)
    \/ \E node \in TotalNodeInputs, strategy \in TotalStrategyInputs,
          slot \in TotalSlotInputs : ByzantineVote(node, strategy, slot)
    \/ \E node \in TotalNodeInputs, strategy \in AdaptInputs : AdaptStrategy(node, strategy)
    \/ \E slot \in TotalSlotInputs, path \in VotePath : Certify(slot, path)
    \/ \E node \in TotalNodeInputs, slot \in TotalSlotInputs : Timeout(node, slot)
    \/ \E slot \in TotalSlotInputs : SkipCert(slot)
    \/ \E node \in TotalNodeInputs, amount \in TotalAmountInputs : StakeDeposit(node, amount)
    \/ \E node \in TotalNodeInputs, amount \in TotalAmountInputs :
          StakeWithdrawal(node, amount)
    \/ \E message_id \in TotalMessageIds : DeliverMessage(message_id)
    \/ \E message_id \in TotalMessageIds : DropMessage(message_id)

SpecTotal == Init /\ [][NextTotal]_vars

TimingStrategyInputs == {Equivocation, TimingAttack(TRUE, 5, None)}
DelayInputs == {5}

NextTime ==
    \/ \E delta \in DeltaInputs : AdvanceTime(delta)
    \/ \E node \in AdaptNodeInputs, strategy \in TimingStrategyInputs :
         AdaptStrategy(node, strategy)
    \/ \E node \in AdaptNodeInputs, strategy \in TimingStrategyInputs,
          slot \in ClockSlotInputs : ByzantineVote(node, strategy, slot)
    \/ \E node \in AdaptNodeInputs, delay_ms \in DelayInputs, target_slot \in ClockSlotInputs :
         TimingManipulation(node, delay_ms, target_slot)
    \/ \E slot \in ClockSlotInputs, path \in VotePath : Certify(slot, path)
    \/ \E slot \in ClockSlotInputs : SkipCert(slot)
    \/ \E from \in SenderInputs, to \in ReceiverInputs, priority \in PriorityInputs :
         SendMessage(from, to, Heartbeat(0), priority)
    \/ \E message_id \in MessageIdInputs : DeliverMessage(message_id)

SpecTime == Init /\ [][NextTime]_vars

\* pairs of disjoint subsets of the registry: covering it, leaving node 3
\* out, and with one side empty
PartitionInputs == {<<{1}, {2, 3}>>, <<{1, 2}, {3}>>, <<{1}, {2}>>, <<{}, {1, 2, 3}>>}
PartitionMessageInputs == {Heartbeat(0), VoteMessage(NewVote(1, 1, 1, Fast, 1))}

NextPartition ==
    \/ \E pair \in PartitionInputs : NetworkPartition(pair[1], pair[2])
    \/ HealPartition
    \/ \E from \in SenderInputs, to \in ReceiverInputs, content \in PartitionMessageInputs,
          priority \in PriorityInputs : SendMessage(from, to, content, priority)
    \/ \E message_id \in MessageIdInputs : DeliverMessage(message_id)
    \/ \E delta \in DeltaInputs : AdvanceTime(delta)

SpecPartition == Init /\ [][NextPartition]_vars

\* the queue on its own: heartbeats of node 1, sent at different times
QueueReceiverInputs == {2, 3}
QueueDeltaInputs == {5}
QueueIdInputs == 0..MaxQueue

NextQueue ==
    \/ \E to \in QueueReceiverInputs :
         SendUpTo(MaxQueue, 1, to, Heartbeat(0), "Normal")
    \/ \E message_id \in QueueIdInputs : DeliverMessage(message_id)
    \/ \E message_id \in QueueIdInputs : DropMessage(message_id)
    \/ \E delta \in QueueDeltaInputs : AdvanceTime(delta)

SpecQueue == Init /\ [][NextQueue]_vars

\* the clock under AdvanceTime{delta: 1}, the one clock action that actions()
\* offers in every state, with timing attacks and a coalition attack that has
\* no target blocks interleaved
LiveStrategyInputs ==
    {TimingAttack(TRUE, 5, None), CoalitionAttack(<<1>>, SplitVote(<<>>))}

NextLive ==
    \/ AdvanceTime(1)
    \/ \E node \in AdaptNodeInputs, strategy \in LiveStrategyInputs :
         AdaptStrategy(node, strategy)
    \/ \E node \in AdaptNodeInputs, strategy \in LiveStrategyInputs,
          slot \in ClockSlotInputs : ByzantineVote(node, strategy, slot)
    \/ \E node \in AdaptNodeInputs, delay_ms \in DelayInputs, target_slot \in ClockSlotInputs :
         TimingManipulation(node, delay_ms, target_slot)

SpecLive == Init /\ [][NextLive]_vars /\ WF_vars(AdvanceTime(1))

\* next_state as a function of the state: node 1 starts in any of the roles
RoleInputs == {Honest, Byzantine(Equivocation), Crashed(0)}
RoleNodeInputs == {1, 2}

InitRoles ==
    \E role \in RoleInputs :
        InitState([n \in Range(InitNodes) |-> IF n = 1 THEN role ELSE Honest])

NextRoles ==
    \/ \E node \in RoleNodeInputs, slot \in SlotInputs, block \in BlockInputs,
          path \in VotePath : Vote(node, slot, block, path)
    \/ \E node \in RoleNodeInputs, strategy \in StrategyInputs, slot \in SlotInputs :
         ByzantineVote(node, strategy, slot)

SpecRoles == InitRoles /\ [][NextRoles]_vars

\* deltas that do and do not divide the slot duration
TickInputs == {1, 3}

NextTicks ==
    \/ \E delta \in TickInputs : AdvanceTime(delta)
    \/ \E node \in TimeoutNodeInputs, slot \in ClockSlotInputs : Timeout(node, slot)

SpecTicks == Init /\ [][NextTicks]_vars

\* proposals for the next slot and for a slot beyond the horizon
ProposeSlotInputs == {2, Horizon + 2}

NextPropose ==
    \/ \E delta \in TickInputs : AdvanceTime(delta)
    \/ \E leader \in NodeInputs, slot \in ProposeSlotInputs : ProposeBlock(leader, slot)
    \/ \E slot \in WindowSlotInputs, window_size \in WindowSizeInputs,
          finality_depth \in FinalityDepthInputs :
         UpdateWindow(slot, window_size, finality_depth)

SpecPropose == Init /\ [][NextPropose]_vars

(***************************************************************************)
(* Properties                                                              *)
(***************************************************************************)
\* C1: honest-no-equivocation.  For every node whose status is Honest and
\* every (slot, path), the votes recorded in the node's vote list name at most
\* one block.
C1_HonestNoEquivocation ==
    \A n \in DOMAIN votes :
       (n \in DOMAIN status /\ IsHonest(status[n])) =>
          \A s \in DOMAIN votes[n] :
             \A i, j \in DOMAIN votes[n][s] :
                (/\ votes[n][s][i].slot = votes[n][s][j].slot
                 /\ votes[n][s][i].path = votes[n][s][j].path)
                => votes[n][s][i].block = votes[n][s][j].block

\* C2: no conflicting certificates.  Once certificates[s] exists, no step
\* removes it or replaces it by a certificate for a different block.
C2_CertificateBlockNeverReplaced ==
    [][\A s \in DOMAIN certificates :
          /\ s \in DOMAIN certificates'
          /\ certificates'[s].block = certificates[s].block]_vars

\* C3: minority-Byzantine safety.  While the nodes with Byzantine status hold
\* at most 20% of the total stake, every certificate has a vote of a node that
\* is not Byzantine: no certificate is for a block voted for only by Byzantine
\* nodes.
C3_MinorityByzantineSafety ==
    byzantine_stake(stake_distribution, status) <= byzantine_threshold_stake(stake_distribution)
    => \A s \in DOMAIN certificates :
          \E v \in certificates[s].votes :
             v.node \in DOMAIN status /\ ~ IsByzantine(status[v.node])

\* C4: certificate quorum invariant.  Every certificate's total_stake is at
\* least the quorum of its path computed from the registry's current total
\* stake, also after deposits and withdrawals.
C4_CertificateQuorum ==
    \A s \in DOMAIN certificates :
       certificates[s].total_stake >= RequiredStake(stake_distribution, certificates[s].path)

\* C5: Byzantine resilience.  When the Byzantine stake is at most 20% of the
\* total stake, the votes of every certificate all name one single block.
C5_ByzantineResilience ==
    byzantine_stake(stake_distribution, status) <= byzantine_threshold_stake(stake_distribution)
    => \A s \in DOMAIN certificates :
          Cardinality({v.block : v \in certificates[s].votes}) <= 1

\* C6: progress.  Every slot s with 1 <= s < current_slot has a certificate
\* or a skip certificate.
C6_Progress ==
    \A s \in 1..(current_slot - 1) : s \in DOMAIN certificates \/ s \in DOMAIN skip_certs

\* C7: fast-path efficiency.  When the honest stake is at least 80% of the
\* total stake, either there is no certificate or some certificate is on the
\* Fast path.
C7_FastPathEfficiency ==
    honest_stake(stake_distribution, status) >= fast_quorum_stake(stake_distribution)
    => \/ DOMAIN certificates = {}
       \/ \E s \in DOMAIN certificates : certificates[s].path = Fast

\* C8: the ledger holds at most one FinalizedBlock per slot.
C8_LedgerOnePerSlot ==
    \A i, j \in DOMAIN ledger : ledger[i].slot = ledger[j].slot => i = j

\* C8, the case: Certify acted again on a slot that is already in the ledger,
\* and installed a certificate for another block than the finalized one.
C8_Recertified ==
    \E i \in DOMAIN ledger :
       /\ ledger[i].slot \in DOMAIN certificates
       /\ certificates[ledger[i].slot].block # ledger[i].block_id

\* C9: slot numbers are strictly increasing along the ledger.
C9_LedgerSlotsIncreasing ==
    \A i \in 1..(Len(ledger) - 1) : ledger[i].slot < ledger[i + 1].slot

\* C10: a slot ends in exactly one terminal state: no slot has both a
\* certificate and a skip certificate.
C10_CertifiedOrSkipped ==
    \A s \in DOMAIN certificates : s \notin DOMAIN skip_certs

\* C11: bounded finalization.  Every slot with an entry in finalization_times
\* satisfies check_finalization_time_bounds.
C11_BoundedFinalization ==
    \A s \in DOMAIN finalization_times :
       check_finalization_time_bounds(finalization_times, s)

\* C12: rotor availability.  For every block in erasure_coded_blocks the number
\* of distinct chunk ids of the block with an availability entry is at least
\* the block's required_chunks.
C12_RotorAvailability ==
    \A b \in DOMAIN erasure_coded_blocks :
       Cardinality(available_chunks(chunk_availability, b))
          >= erasure_coded_blocks[b].required_chunks

\* number of history entries naming the leader
LeaderCount(history, leader) ==
    Cardinality({i \in DOMAIN history : history[i][2] = leader})

\* C13: leader fairness.  When leader_history has at least 10 entries, no
\* leader appears in more than half of them.
C13_LeaderFairness ==
    Len(leader_rotation.leader_history) >= FairnessHistory
    => \A leader \in {leader_rotation.leader_history[i][2] :
                         i \in DOMAIN leader_rotation.leader_history} :
          LeaderCount(leader_rotation.leader_history, leader)
             <= Len(leader_rotation.leader_history) \div 2

\* C14: economic conservation.  The sum of the validator balances plus the
\* rewards pool minus the slashed total does not exceed the initial total
\* stake plus the initial rewards pool.
C14_EconomicConservation ==
    SumValues(economic_state.validator_balances, DOMAIN economic_state.validator_balances)
       + economic_state.rewards_pool - economic_state.total_slashed
    <= total_stake(InitStake) + Len(InitNodes) * PoolPerNode

\* C15: honest vote idempotence.  In every reachable state, for every
\* registered node, slot, block and path, applying the same Vote action twice
\* gives the state that applying it once gives (Vote changes only the vote
\* lists, so the comparison is on them).
C15_VoteIdempotent ==
    \A node \in NodeInputs \cap DOMAIN status, slot \in 0..(Horizon + 1),
       block \in BlockInputs, path \in VotePath :
        LET once == NextVotes(votes, status, stake_distribution, node, slot, block, path)
        IN NextVotes(once, status, stake_distribution, node, slot, block, path) = once

\* an honest node has cast a vote, and voting the same again changes nothing
C15_VoteRepeated ==
    \E node \in DOMAIN status, slot \in SlotInputs :
        /\ IsHonest(status[node])
        /\ slot \in DOMAIN votes[node]
        /\ \E i \in DOMAIN votes[node][slot] :
             LET v == votes[node][slot][i]
             IN /\ NextVotes(votes, status, stake_distribution,
                             node, slot, v.block, v.path) = votes
                /\ NextVotes([votes EXCEPT ![node][slot] = <<>>], status,
                             stake_distribution, node, slot, v.block, v.path)
                      # [votes EXCEPT ![node][slot] = <<>>]

\* C16: deterministic replay.  The successor of a state under an action is
\* unique: Certify has one outcome also when several blocks qualify, and
\* select_relay_nodes gives one relay list whatever the walk of the stake map.
C16_DeterministicReplay ==
    /\ \A slot \in SlotInputs, path \in VotePath :
          Cardinality(CertifyOutcomes(slot, path)) <= 1
    /\ \A erasure_block \in ErasureBlockInputs :
          Cardinality(RelayOutcomes(stake_distribution, nodes, erasure_block)) <= 1

\* C17: next_state is total.  No action value makes next_state abort: the
\* run never panics.
C17_NextStateTotal == ~ panicked

\* C18: clock coupling.  Every step that changes global_time is an
\* AdvanceTime step or a ByzantineVote step that executes a TimingAttack.
C18_ClockCoupling ==
    [][global_time' # global_time =>
          \/ \E delta \in 1..MaxTime : AdvanceTime(delta)
          \/ \E node \in NodeInputs, strategy \in TimingStrategyInputs,
                slot \in ClockSlotInputs :
                /\ StrategyToUse(timeouts, strategy, node, slot).kind = "TimingAttack"
                /\ ByzantineVote(node, strategy, slot)]_vars

\* C19: no early delivery.  Every message that a step moves from
\* pending_messages to delivered_messages is recorded with a delivery_time at
\* or after the scheduled_delivery_time it had while pending.
C19_NoEarlyDelivery ==
    [][\A i \in DOMAIN message_queue.pending_messages :
         LET message == message_queue.pending_messages[i]
         IN \A j \in DOMAIN message_queue'.delivered_messages :
              LET delivered == message_queue'.delivered_messages[j]
              IN (/\ delivered.id = message.id
                  /\ ~ \E k \in DOMAIN message_queue.delivered_messages :
                         message_queue.delivered_messages[k].id = message.id)
                 => delivered.delivery_time >= message.scheduled_delivery_time]_vars

\* from and to lie in different subsets of the partition
InDifferentSubsets(partition, from, to) ==
    \/ from \in partition.partition_a /\ to \in partition.partition_b
    \/ from \in partition.partition_b /\ to \in partition.partition_a

SkipConditions(slot) ==
    /\ TimedOutCount(nodes, timeouts, slot) * 100 >= SkipNodePercent * Len(nodes)
    /\ SumStake(SlotVotes(votes, DOMAIN votes, slot)) >= slow_quorum_stake(stake_distribution)

\* C22: SkipCert(slot) installs skip_certs[slot] if and only if both skip
\* conditions hold; otherwise the state is unchanged.
C22_SkipCertConditions ==
    [][\A slot \in SlotInputs :
          SkipCert(slot) =>
             /\ skip_certs' # skip_certs => SkipConditions(slot)
             /\ SkipConditions(slot) => slot \in DOMAIN skip_certs']_vars

\* C23: Timeout is honest-only.  A Timeout step of a registered node
\* increments the node's count for the slot and records global_time when the
\* node is Honest, and leaves the state unchanged when it is not.
C23_TimeoutHonestOnly ==
    [][\A node \in TotalNodeInputs \cap DOMAIN status,
          slot \in TotalSlotInputs \cap (1..Horizon) :
          Timeout(node, slot) =>
             IF status[node].kind = "Honest"
             THEN timeouts' = [timeouts EXCEPT ![node][slot] =
                                 [@ EXCEPT !.count = @ + 1, !.last_timeout = global_time]]
             ELSE UNCHANGED vars]_vars

\* C24: Certify tie-break.  A Certify step for a slot and path on which one
\* or more blocks reach the quorum installs the certificate, and the ledger
\* entry when it adds one, for the smallest such block id.
C24_CertifySmallestBlock ==
    [][\A slot \in SlotInputs, path \in VotePath :
          LET qualifying == QualifyingBlocks(votes, stake_distribution, slot, path)
              smallest == CHOOSE b \in qualifying : \A c \in qualifying : b <= c
          IN (qualifying # {} /\ Certify(slot, path)) =>
                /\ certificates'[slot].block = smallest
                /\ Len(ledger') > Len(ledger) => ledger'[Len(ledger')].block_id = smallest]_vars

\* C25: in a run made of AdvanceTime actions only (no timeout was counted),
\* current_slot = min(5, 1 + floor(global_time / 10)) in every state.
C25_SlotFollowsClock ==
    CountTimeouts(timeouts, DOMAIN timeouts) = 0
    => current_slot = Min(Horizon, 1 + global_time \div SlotTicks)

\* C26: slot advancement triggers leader rotation.  After an AdvanceTime step
\* that increments current_slot, leader_rotation.current_slot is the new
\* slot, current_leader is get_leader_for_slot of it, and leader_history has
\* gained the entry (current_slot, current_leader).
C26_SlotAdvanceRotatesLeader ==
    [][(current_slot' # current_slot /\ \E delta \in TickInputs : AdvanceTime(delta)) =>
          /\ leader_rotation'.current_slot = current_slot'
          /\ leader_rotation'.current_leader =
                get_leader_for_slot(current_window', current_slot')
          /\ leader_rotation'.leader_history =
                Append(leader_rotation.leader_history,
                       <<current_slot', leader_rotation'.current_leader>>)]_vars

\* the severity table as the contract gives it
TablePercent(severity) ==
    CASE severity = Minor -> 5
      [] severity = Moderate -> 15
      [] severity = Severe -> 30
      [] severity = Critical -> 50

\* C27: slashing severity table.  A SlashValidator step on a violator whose
\* current balance is b > 0 lowers the violator's balance by floor(b*p/100),
\* p taken from the table, raises total_slashed by the same amount and
\* appends the evidence; b is the balance at the time of the step, also when
\* the violator was slashed before.  (Balances below 2^53, which f64 holds
\* exactly.)
C27_SlashingTable ==
    [][\A evidence \in SlashEvidenceInputs :
          LET b == StakeOf(economic_state.validator_balances, evidence.violator)
              cut == (b * TablePercent(evidence.severity)) \div 100
          IN (b > 0 /\ SlashValidator(evidence)) =>
                /\ economic_state'.validator_balances[evidence.violator] = b - cut
                /\ economic_state'.total_slashed = economic_state.total_slashed + cut
                /\ economic_state'.slashing_evidence =
                      Append(economic_state.slashing_evidence, evidence)]_vars

\* a validator with a three-digit balance was slashed twice, with two
\* different severities
C27_SlashedTwice ==
    /\ Len(economic_state.slashing_evidence) = 2
    /\ economic_state.slashing_evidence[1].violator =
          economic_state.slashing_evidence[2].violator
    /\ economic_state.slashing_evidence[1].severity #
          economic_state.slashing_evidence[2].severity
    /\ economic_state.total_slashed > 10

\* C28: after SlashValidator with evidence of Critical severity the
\* violator's status is Byzantine(Equivocation), whatever the violator and
\* its balance; with any other severity every status is unchanged.
C28_CriticalSlashTurnsByzantine ==
    \A evidence \in SlashEvidenceInputs :
        LET after == SlashedStatus(status, economic_state, evidence)
        IN IF evidence.severity = Critical
           THEN after[evidence.violator] = Byzantine(Equivocation)
           ELSE after = status

\* the distributions offered in a state
DistributionInputs ==
    {calculate_epoch_rewards(economic_state.rewards_pool, stake_distribution, status, 1,
                             participating) : participating \in ParticipantInputs}
    \cup {OversizedDistribution}

\* the amount a reward map lists for a node
Listed(rewards, node) == IF node \in DOMAIN rewards THEN rewards[node] ELSE 0

\* C29: DistributeRewards with total_rewards above the pool leaves the
\* economic state unchanged (the action changes nothing else); otherwise the
\* pool decreases by exactly total_rewards and every balance grows by the
\* validator, performance and participation amounts listed for the node.
C29_DistributeRewards ==
    \A d \in DistributionInputs :
        LET after == distribute_rewards(economic_state, d)
        IN IF d.total_rewards > economic_state.rewards_pool
           THEN after = economic_state
           ELSE /\ after.rewards_pool = economic_state.rewards_pool - d.total_rewards
                /\ after.total_slashed = economic_state.total_slashed
                /\ \A n \in DOMAIN after.validator_balances :
                      after.validator_balances[n] =
                         StakeOf(economic_state.validator_balances, n)
                         + Listed(d.validator_rewards, n)
                         + Listed(d.performance_bonuses, n)
                         + Listed(d.participation_rewards, n)

\* rewards were distributed once, to three-digit bonuses, and a distribution
\* above the pool is on offer
C29_RewardsDistributed ==
    /\ economic_state.rewards_pool < Len(InitNodes) * PoolPerNode
    /\ \E n \in DOMAIN economic_state.validator_balances :
         economic_state.validator_balances[n] > PoolPerNode \div 20
    /\ OversizedDistribution.total_rewards > economic_state.rewards_pool

\* the block is installed and at least required_chunks distinct chunk ids of
\* it have availability entries
Reconstructible(block_id) ==
    /\ block_id \in DOMAIN erasure_coded_blocks
    /\ Cardinality({k \in DOMAIN chunk_availability : k[1] = block_id})
         >= erasure_coded_blocks[block_id].required_chunks

\* C30: ReconstructBlock(node, block_id) leaves chunk_availability unchanged
\* (the action changes nothing else) unless the block is installed with at
\* least required_chunks chunk ids available; when it is, node is afterwards
\* in the entry of every chunk of the block and no entry loses a node.
C30_ReconstructBlock ==
    \A node \in RotorNodeInputs, block_id \in RotorBlockIds \cup {b + 1 : b \in RotorBlockIds} :
        LET after == reconstructed(erasure_coded_blocks, chunk_availability, node, block_id)
        IN IF Reconstructible(block_id)
           THEN /\ \A c \in Range(erasure_coded_blocks[block_id].chunks) :
                     /\ <<block_id, c.chunk_id>> \in DOMAIN after
                     /\ node \in after[<<block_id, c.chunk_id>>]
                /\ \A k \in DOMAIN chunk_availability :
                     k \in DOMAIN after /\ chunk_availability[k] \subseteq after[k]
           ELSE after = chunk_availability

\* a node that is no relay of some chunk holds every chunk of a block
C30_BlockReconstructed ==
    \E block_id \in DOMAIN erasure_coded_blocks, node \in RotorNodeInputs :
        /\ Reconstructible(block_id)
        /\ \A c \in Range(erasure_coded_blocks[block_id].chunks) :
              /\ <<block_id, c.chunk_id>> \in DOMAIN chunk_availability
              /\ node \in chunk_availability[<<block_id, c.chunk_id>>]
        /\ \/ node \notin DOMAIN relay_assignments
           \/ \E c \in Range(erasure_coded_blocks[block_id].chunks) :
                 \A i \in DOMAIN relay_assignments[node].assigned_chunks :
                    relay_assignments[node].assigned_chunks[i] # c.chunk_id

\* the ids of the pending and of the delivered messages
PendingIds == {message_queue.pending_messages[i].id : i \in DOMAIN message_queue.pending_messages}
DeliveredIds ==
    {message_queue.delivered_messages[i].id : i \in DOMAIN message_queue.delivered_messages}

\* C31: message queue well-formedness.  In every reachable state the pending
\* and the delivered messages have pairwise distinct ids, each below
\* message_counter, no id is both pending and delivered, and every pending
\* message is scheduled at or after its send_time; message_counter never
\* decreases.
C31_QueueWellFormed ==
    /\ [](/\ Cardinality(PendingIds) = Len(message_queue.pending_messages)
          /\ Cardinality(DeliveredIds) = Len(message_queue.delivered_messages)
          /\ PendingIds \cap DeliveredIds = {}
          /\ \A id \in PendingIds \cup DeliveredIds : id < message_queue.message_counter
          /\ \A i \in DOMAIN message_queue.pending_messages :
                message_queue.pending_messages[i].scheduled_delivery_time
                   >= message_queue.pending_messages[i].send_time)
    /\ [][message_queue'.message_counter >= message_queue.message_counter]_vars

\* two messages were sent: one is delivered, the other still pending
C31_OnePendingOneDelivered ==
    /\ message_queue.message_counter = 2
    /\ Len(message_queue.pending_messages) = 1
    /\ Len(message_queue.delivered_messages) = 1

\* C32: positive balance of active nodes.  Every node that is in
\* stake_distribution and has a balance entry has a balance above zero.
C32_ActiveBalancePositive ==
    \A node \in DOMAIN stake_distribution \cap DOMAIN economic_state.validator_balances :
        economic_state.validator_balances[node] > 0

\* C33: each node's stake counts at most once toward a certificate.  The
\* total_stake of every certificate is the sum of the stakes of the distinct
\* nodes in its votes, and so never exceeds total_stake().
C33_StakeCountedOnce ==
    \A slot \in DOMAIN certificates :
        LET cert == certificates[slot]
            voters == {v.node : v \in cert.votes}
        IN /\ cert.total_stake =
                SumValues([n \in voters |-> StakeOf(stake_distribution, n)], voters)
           /\ cert.total_stake <= total_stake(stake_distribution)

\* C34: vote lists are keyed by their author.  Every vote stored in
\* votes[n][s] has node n and slot s.
C34_VotesKeyedByAuthor ==
    \A n \in DOMAIN votes :
        \A s \in DOMAIN votes[n] :
            \A i \in DOMAIN votes[n][s] :
                votes[n][s][i].node = n /\ votes[n][s][i].slot = s

\* C35: ledger and certificates agree.  For every ledger entry there is a
\* certificate of the entry's slot, and it names the entry's block.
C35_LedgerMatchesCertificates ==
    \A i \in DOMAIN ledger :
        /\ ledger[i].slot \in DOMAIN certificates
        /\ certificates[ledger[i].slot].block = ledger[i].block_id

\* C36: bounded slot horizon.  In every reachable state current_slot lies in
\* 1..5, and no step lowers it.
C36_SlotWithinHorizon ==
    /\ [](1 <= current_slot /\ current_slot <= Horizon)
    /\ [][current_slot' >= current_slot]_vars

\* C37: registry consistency.  Every node id in nodes has an entry in status,
\* in stake_distribution, in votes and in timeouts.
C37_RegistryConsistent ==
    \A n \in Range(nodes) :
        /\ n \in DOMAIN status
        /\ n \in DOMAIN stake_distribution
        /\ n \in DOMAIN votes
        /\ n \in DOMAIN timeouts

\* C38: the partition check of SendMessage agrees with can_node_communicate.
\* While a partition is present and no failure drops the message, a
\* SendMessage step enqueues a pending message exactly when
\* can_node_communicate(from, to) is true.
C38_SendAgreesWithCommunicate ==
    [][\A from \in SenderInputs, to \in ReceiverInputs, content \in PartitionMessageInputs,
          priority \in PriorityInputs :
          (/\ network_partition # <<>>
           /\ ~ should_drop(network_state, global_time, from, to)
           /\ SendMessage(from, to, content, priority))
          => (Len(message_queue'.pending_messages) > Len(message_queue.pending_messages)
                <=> can_node_communicate(network_partition, from, to))]_vars

\* C39: slot liveness.  Under weak fairness of AdvanceTime{delta: 1}, from
\* every state with current_slot below 5 the slot eventually reaches 5, or the
\* clock reaches the bound of the exploration first.
C39_SlotLiveness ==
    [](current_slot < Horizon => <>(current_slot = Horizon \/ global_time >= MaxTime))

====
